---- MODULE Spec2Model ----
(***************************************************************************)
(* Model of the DICOM anonymization engine (DicomAnonymizer), of the batch  *)
(* worker (AnonymizationWorker.run) and of the handlers of the window      *)
(* (DicomAnonymizerApp) of src/dicom_anonymizer_app.py.                    *)
(*                                                                         *)
(* A record (pydicom Dataset) is a function from the tags it holds to      *)
(* their values; `tag in dicom_file` is `tag \in DOMAIN ds`, `del` removes *)
(* the tag from the domain and len(dicom_file) is the size of the domain.  *)
(* Values are kept in their stringified form.                              *)
(***************************************************************************)
EXTENDS Integers, Sequences, FiniteSets, TLC

\* ------------------------------------------------------------------ bounds
MaxAttrs == 2      \* attributes of an input record of the engine
MaxApplies == 2    \* successive applications of the engine to one record
MaxFiles == 4      \* record files the input tree may hold
MaxRuns == 2       \* batch runs started from the window

\* --------------------------------------------------------------- rule set
ANONYMIZATION_RULES ==
  [ remove |-> << "PatientName", "PatientID", "PatientBirthDate", "PatientAge",
                  "PatientSex", "PatientAddress", "PatientTelephoneNumbers",
                  "StudyInstanceUID", "SeriesInstanceUID", "StudyDate", "SeriesDate",
                  "ContentDate", "StudyTime", "SeriesTime", "ContentTime",
                  "AcquisitionDateTime", "StudyDescription", "SeriesDescription",
                  "ReferringPhysicianName", "PerformingPhysicianName", "OperatorsName",
                  "InstitutionName", "InstitutionAddress", "Manufacturer",
                  "ManufacturerModelName", "DeviceSerialNumber", "StationName" >>,
    replace |-> << <<"PatientName", "ANONYMIZED">>,
                   <<"PatientID", "ANON-ID-001">>,
                   <<"ReferringPhysicianName", "ANONYMIZED">>,
                   <<"PerformingPhysicianName", "ANONYMIZED">>,
                   <<"OperatorsName", "ANONYMIZED">>,
                   <<"InstitutionName", "ANONYMIZED">> >>,
    date_shift |-> << "StudyDate", "SeriesDate", "PatientBirthDate",
                      "ContentDate", "AcquisitionDate" >> ]

\* The three tags the engine regenerates, in the order of the code.
UidTags == << "SOPInstanceUID", "StudyInstanceUID", "SeriesInstanceUID" >>

\* Vendor tags (odd group number): the tags whose is_private flag is set.
\* They have no keyword, so no keyword of a rule set names them.
PrivateTags == { "(0009,0010)", "(0019,1001)" }

\* Standard tags no rule names.
OtherTags == { "Modality", "PixelData" }

Range(s) == { s[i] : i \in DOMAIN s }

RemoveTags(rules) == Range(rules.remove)
ReplaceTags(rules) == { p[1] : p \in Range(rules.replace) }
DateShiftTags(rules) == Range(rules.date_shift)

Tags == RemoveTags(ANONYMIZATION_RULES) \cup ReplaceTags(ANONYMIZATION_RULES)
        \cup DateShiftTags(ANONYMIZATION_RULES) \cup Range(UidTags)
        \cup PrivateTags \cup OtherTags

\* Rule sets a caller may pass instead of the default (rules=None).
CustomRules ==
  [ keep_all |-> [ remove |-> << >>, replace |-> << >>, date_shift |-> << >> ],
    no_remove |-> [ remove |-> << >>,
                    replace |-> ANONYMIZATION_RULES.replace,
                    date_shift |-> ANONYMIZATION_RULES.date_shift ],
    replace_dates |-> [ remove |-> << "PatientName" >>,
                        replace |-> << <<"AcquisitionDate", "19000101">> >>,
                        date_shift |-> << "AcquisitionDate" >> ] ]

RuleNames == { "None" } \cup DOMAIN CustomRules

\* rules = None selects the class constant.
ResolveRules(name) ==
  IF name = "None" THEN ANONYMIZATION_RULES ELSE CustomRules[name]

\* ---------------------------------------------------------------- records
\* Variant of is_private that takes every tag no rule names for a vendor tag.
is_private_unnamed(tag) ==
  tag \notin RemoveTags(ANONYMIZATION_RULES) \cup ReplaceTags(ANONYMIZATION_RULES)
              \cup DateShiftTags(ANONYMIZATION_RULES) \cup Range(UidTags)

\* tag.is_private: the group number of the tag is odd.
is_private(tag) == tag \in PrivateTags

Del(ds, tag) == [ t \in (DOMAIN ds) \ {tag} |-> ds[t] ]

SetValue(ds, tag, v) == [ ds EXCEPT ![tag] = v ]

EmptyRecord == [ t \in {} |-> "" ]

\* Values an attribute of an input file may hold.
InputValues(tag) ==
  IF tag \in DateShiftTags(ANONYMIZATION_RULES) THEN { "20210615", "202106", "" }
  ELSE IF tag \in Range(UidTags) THEN { "1.2.840.1" }
  ELSE { "orig" }

RECURSIVE RecordsUpTo(_)
RecordsUpTo(k) ==
  IF k = 0 THEN { EmptyRecord }
  ELSE LET prev == RecordsUpTo(k - 1)
       IN prev \cup
          UNION { { [ t \in (DOMAIN r) \cup {tag} |-> IF t = tag THEN v ELSE r[t] ]
                    : v \in InputValues(tag) }
                  : <<r, tag>> \in { p \in prev \X Tags : p[2] \notin DOMAIN p[1] } }

\* -------------------------------------------------------- identifier source
\* pydicom's generate_uid(): the n-th identifier it hands out.
generate_uid(n) == "2.25." \o ToString(n)

\* ------------------------------------------------------------------ engine
\* The engine's working state: the record it mutates in place and the
\* running anonymized_count.
EngineState(ds, n) == [ ds |-> ds, anonymized_count |-> n ]

\* for tag in rules['remove']: if tag in dicom_file: del ...; count += 1
RECURSIVE RemoveLoop(_, _, _)
RemoveLoop(list, i, st) ==
  IF i > Len(list) THEN st
  ELSE IF list[i] \in DOMAIN st.ds
  THEN RemoveLoop(list, i + 1,
                  EngineState(Del(st.ds, list[i]), st.anonymized_count + 1))
  ELSE RemoveLoop(list, i + 1, st)

\* for tag, replacement_value in rules['replace'].items():
\*     if tag in dicom_file: dicom_file[tag].value = replacement_value; count += 1
RECURSIVE ReplaceLoop(_, _, _)
ReplaceLoop(items, i, st) ==
  IF i > Len(items) THEN st
  ELSE IF items[i][1] \in DOMAIN st.ds
  THEN ReplaceLoop(items, i + 1,
                   EngineState(SetValue(st.ds, items[i][1], items[i][2]),
                               st.anonymized_count + 1))
  ELSE ReplaceLoop(items, i + 1, st)

\* Variant of ShiftedDate that appends the suffix to the whole value.
ShiftedDate_appended(current_value) ==
  IF Len(current_value) >= 8
  THEN current_value \o "0101"
  ELSE current_value

\* current_value[:4] + '0101' when len(current_value) >= 8
ShiftedDate(current_value) ==
  IF Len(current_value) >= 8
  THEN SubSeq(current_value, 1, 4) \o "0101"
  ELSE current_value

\* for tag in rules['date_shift']: if tag in dicom_file: shift when the
\* stringified value has at least 8 characters; count += 1 only then.
RECURSIVE DateShiftLoop(_, _, _)
DateShiftLoop(list, i, st) ==
  IF i > Len(list) THEN st
  ELSE IF list[i] \in DOMAIN st.ds /\ Len(st.ds[list[i]]) >= 8
  THEN DateShiftLoop(list, i + 1,
                     EngineState(SetValue(st.ds, list[i], ShiftedDate(st.ds[list[i]])),
                                 st.anonymized_count + 1))
  ELSE DateShiftLoop(list, i + 1, st)

\* tags_to_remove = [tag for tag in dicom_file.keys() if tag.is_private];
\* each of them is deleted and counted once.
PrivatePurge(st) ==
  LET tags_to_remove == { tag \in DOMAIN st.ds : is_private(tag) }
  IN EngineState([ t \in (DOMAIN st.ds) \ tags_to_remove |-> st.ds[t] ],
                 st.anonymized_count + Cardinality(tags_to_remove))

\* Variant of RegenerateUids that counts every regenerated identifier.
RECURSIVE RegenerateUids_counted(_, _)
RegenerateUids_counted(i, g) ==
  IF i > Len(UidTags) THEN g
  ELSE IF UidTags[i] \in DOMAIN g.st.ds
  THEN RegenerateUids_counted(i + 1,
         [ st |-> EngineState(SetValue(g.st.ds, UidTags[i], generate_uid(g.uids + 1)),
                              g.st.anonymized_count + 1),
           uids |-> g.uids + 1 ])
  ELSE RegenerateUids_counted(i + 1, g)

\* if 'SOPInstanceUID' in dicom_file: dicom_file.SOPInstanceUID = generate_uid()
\* and the same for StudyInstanceUID and SeriesInstanceUID.  The state
\* carries the number of identifiers handed out so far.
RECURSIVE RegenerateUids(_, _)
RegenerateUids(i, g) ==
  IF i > Len(UidTags) THEN g
  ELSE IF UidTags[i] \in DOMAIN g.st.ds
  THEN RegenerateUids(i + 1,
         [ st |-> EngineState(SetValue(g.st.ds, UidTags[i], generate_uid(g.uids + 1)),
                              g.st.anonymized_count),
           uids |-> g.uids + 1 ])
  ELSE RegenerateUids(i + 1, g)

\* The record and count after the remove, replace and date-shift loops.
AfterRules(ds, rules) ==
  DateShiftLoop(rules.date_shift, 1,
    ReplaceLoop(rules.replace, 1,
      RemoveLoop(rules.remove, 1, EngineState(ds, 0))))

\* anonymize_dicom(dicom_file, rules): the record as the call leaves it,
\* the returned pair and the identifiers consumed.  `raises` is the
\* case of a record whose attribute collection cannot be enumerated:
\* keys() raises and the handler returns (False, str(e)).
anonymize_dicom(ds, rulesName, uids, raises) ==
  LET rules == ResolveRules(rulesName)
      afterRules == AfterRules(ds, rules)
      g == RegenerateUids(1, [ st |-> PrivatePurge(afterRules), uids |-> uids ])
  IN IF raises
     THEN [ ds |-> afterRules.ds, ok |-> FALSE, count |-> 0,
            message |-> "cannot enumerate attributes", uids |-> uids ]
     ELSE [ ds |-> g.st.ds, ok |-> TRUE, count |-> g.st.anonymized_count,
            message |-> "", uids |-> g.uids ]

\* -------------------------------------------------------------- file system
\* Characters of the modelled paths, in code point order.
Alphabet == "./0123456789abcdefghijklmnopqrstuvwxyz"

CharAt(str, i) == SubSeq(str, i, i)

CodePoint(c) == CHOOSE k \in 1..Len(Alphabet) : CharAt(Alphabet, k) = c

\* Python's < on str: the first differing code point decides, a proper
\* prefix is smaller.
RECURSIVE StrLess(_, _, _)
StrLess(a, b, i) ==
  IF i > Len(a) THEN i <= Len(b)
  ELSE IF i > Len(b) THEN FALSE
  ELSE IF CharAt(a, i) = CharAt(b, i) THEN StrLess(a, b, i + 1)
  ELSE CodePoint(CharAt(a, i)) < CodePoint(CharAt(b, i))

\* Variant of sorted that returns the paths in descending order.
RECURSIVE sorted_descending(_)
sorted_descending(S) ==
  IF S = {} THEN << >>
  ELSE LET greatest == CHOOSE x \in S : \A y \in S \ {x} : StrLess(y, x, 1)
       IN << greatest >> \o sorted_descending(S \ {greatest})

\* sorted(list of str)
RECURSIVE sorted(_)
sorted(S) ==
  IF S = {} THEN << >>
  ELSE LET least == CHOOSE x \in S : \A y \in S \ {x} : StrLess(x, y, 1)
       IN << least >> \o sorted(S \ {least})

\* Path relative to the root of a tree: every second record file lies in a
\* sub-directory, so that path order and numbering differ.
RelPath(i) ==
  IF i % 2 = 0 THEN "sub/img" \o ToString(i) \o ".dcm"
  ELSE "img" \o ToString(i) \o ".dcm"

RecordRelPaths == { RelPath(i) : i \in 1..MaxFiles }

\* Two more entries a tree may hold: a file of another type and a
\* sub-directory whose name ends in .dcm.
RelPaths == RecordRelPaths \cup { "notes.txt", "scan.dcm" }

Join(dir, rel) == dir \o "/" \o rel

Dirs == { "in", "out" }

FullPaths == { Join(d, rel) : d \in Dirs, rel \in RelPaths }

\* fnmatch of the pattern '*.dcm' on a file name
MatchesDcm(path) ==
  Len(path) >= 4 /\ SubSeq(path, Len(path) - 3, Len(path)) = ".dcm"

StartsWith(path, prefix) ==
  Len(path) >= Len(prefix) /\ SubSeq(path, 1, Len(prefix)) = prefix

\* Path(file_path).name: what follows the last separator
RECURSIVE Name(_)
Name(path) ==
  IF \E i \in 1..Len(path) : CharAt(path, i) = "/"
  THEN LET i == CHOOSE k \in 1..Len(path) : CharAt(path, k) = "/"
       IN Name(SubSeq(path, i + 1, Len(path)))
  ELSE path

\* Path(file_path).relative_to(input_dir), defined when file_path lies below it
relative_to(file_path, dir) == SubSeq(file_path, Len(dir) + 2, Len(file_path))

\* What a path of the file system holds.
Absent == [ kind |-> "absent", ds |-> EmptyRecord, enumerable |-> TRUE ]
Corrupt == [ kind |-> "corrupt", ds |-> EmptyRecord, enumerable |-> TRUE ]
TextFile == [ kind |-> "text", ds |-> EmptyRecord, enumerable |-> TRUE ]
Directory == [ kind |-> "directory", ds |-> EmptyRecord, enumerable |-> TRUE ]
RecordFile(ds, enumerable) == [ kind |-> "record", ds |-> ds, enumerable |-> enumerable ]

\* Records of the files of an input tree.
PatientRecord ==
  [ t \in { "PatientName", "StudyDate", "AcquisitionDate", "SOPInstanceUID",
            "(0009,0010)", "Modality", "PixelData" } |->
      IF t = "StudyDate" \/ t = "AcquisitionDate" THEN "20210615"
      ELSE IF t = "SOPInstanceUID" THEN "1.2.840.1"
      ELSE "orig" ]

PlainRecord == [ t \in { "Modality", "PixelData" } |-> "orig" ]

\* The record a file of the tree holds when the codec can parse it.
RecordAt(rel) == IF StartsWith(rel, "sub/") THEN PlainRecord ELSE PatientRecord

\* What a record file path of an input tree may hold: nothing, bytes the
\* codec cannot parse, or a record, whose attributes can be enumerated or not.
RecordFileContents(rel) ==
  { Absent, Corrupt, RecordFile(RecordAt(rel), TRUE), RecordFile(RecordAt(rel), FALSE) }

\* DicomAnonymizer.find_dicom_files(directory): rglob('*.dcm') yields every
\* entry below an existing directory whose name matches, files and
\* directories alike, and nothing for a path that is not a directory.
find_dicom_files(fs, directory, kind) ==
  IF kind # "missing"
  THEN sorted({ p \in DOMAIN fs :
                  /\ kind = "dir"
                  /\ StartsWith(p, directory \o "/")
                  /\ fs[p].kind # "absent"
                  /\ MatchesDcm(Name(p)) })
  ELSE << >>

\* ------------------------------------------------------------------- state
VARIABLES
  pc,            \* position of AnonymizationWorker.run
  input_dir,     \* self.input_dir
  output_dir,    \* self.output_dir
  inputKind,     \* what input_dir is: "missing", "file" or "dir"
  fs,            \* content of every path of the file system
  outputCreated, \* Path(self.output_dir).mkdir(...) has succeeded
  dicom_files,   \* the list returned by discovery
  idx,           \* loop index: files attempted so far
  stats,         \* the stats dictionary of the run
  outcomes,      \* outcome of every attempted file, in order
  progressLog,   \* values emitted on the progress signal
  statusLog,     \* texts emitted on the status signal
  finishedLog,   \* payloads emitted on the finished signal
  uids,          \* identifiers generate_uid() has handed out
  dicom_file,    \* record an engine caller holds
  rules,         \* rule set that caller passes
  enumerable,    \* whether the record's attribute collection can be enumerated
  before,        \* the record as it was before the latest engine call
  ret,           \* what the latest engine call returned
  applies,       \* engine calls made on dicom_file
  uidsAtCall,    \* identifiers handed out before the latest engine call
  report,        \* what the latest verification reported
  checkboxes,    \* state of the check boxes of the settings tab
  worker_thread, \* self.worker_thread: 0 for None, else the number of a thread
  threads,       \* every QThread started so far, with the worker moved to it
  finishedQueue, \* finished notifications queued for the window's thread
  aborted,       \* the process was aborted
  messageBox     \* text of the latest dialog shown

workerVars == << pc, input_dir, output_dir, inputKind, fs, outputCreated,
                 dicom_files, idx, stats, outcomes, progressLog, statusLog,
                 finishedLog >>

engineVars == << dicom_file, rules, enumerable, before, ret, applies, uidsAtCall >>

appVars == << checkboxes, worker_thread, threads, finishedQueue, aborted, messageBox >>

guiVars == << report, appVars >>

vars == << workerVars, uids, engineVars, guiVars >>

NoReturn == [ ok |-> FALSE, count |-> 0, message |-> "not called" ]

NewStats(total) ==
  [ total |-> total, successful |-> 0, failed |-> 0,
    total_tags_removed |-> 0, errors |-> << >> ]

EngineIdle ==
  /\ dicom_file = EmptyRecord
  /\ rules = "None"
  /\ enumerable = TRUE
  /\ before = EmptyRecord
  /\ ret = NoReturn
  /\ applies = 0
  /\ uidsAtCall = 0

\* No verification has been run.
NoReport ==
  [ done |-> FALSE, original_tags |-> 0, anonymized_tags |-> 0, tags_removed |-> 0,
    removed_count |-> 0, still_present |-> << >>, pixel_data_present |-> FALSE ]

\* The five check boxes of the settings tab.
CheckboxNames ==
  { "remove_patient_name", "remove_dates", "remove_physician",
    "generate_new_uids", "remove_private_tags" }

\* The window after __init__: every check box checked, no worker thread.
GuiIdle ==
  /\ report = NoReport
  /\ checkboxes = [ c \in CheckboxNames |-> TRUE ]
  /\ worker_thread = 0
  /\ threads = << >>
  /\ finishedQueue = << >>
  /\ aborted = FALSE
  /\ messageBox = ""

WorkerIdle ==
  /\ pc = "Idle"
  /\ outputCreated = FALSE
  /\ dicom_files = << >>
  /\ idx = 0
  /\ stats = NewStats(0)
  /\ outcomes = << >>
  /\ progressLog = << >>
  /\ statusLog = << >>
  /\ finishedLog = << >>

\* Every assignment of a content to the record file paths.
RecordFileChoices ==
  { f \in [ RecordRelPaths -> UNION { RecordFileContents(rel) : rel \in RecordRelPaths } ] :
      \A rel \in RecordRelPaths : f[rel] \in RecordFileContents(rel) }

\* File systems a run may start from: an input tree holding any mix of
\* record files, possibly a file of another type and a sub-directory named
\* like a record file, and an empty output side.
InputTrees ==
  { [ p \in FullPaths |->
        IF ~ StartsWith(p, "in/") THEN Absent
        ELSE IF relative_to(p, "in") \in RecordRelPaths THEN records[relative_to(p, "in")]
        ELSE IF relative_to(p, "in") = "scan.dcm" THEN subdir
        ELSE other ]
    : records \in RecordFileChoices,
      other \in { Absent, TextFile },
      subdir \in { Absent, Directory } }

EmptyTree == [ p \in FullPaths |-> Absent ]

\* ----------------------------------------------------------- batch worker
\* AnonymizationWorker(input_dir, output_dir), before run() is called.
Init ==
  /\ WorkerIdle
  /\ input_dir = "in"
  /\ output_dir \in Dirs
  /\ inputKind \in { "missing", "file", "dir" }
  /\ fs \in (IF inputKind = "dir" THEN InputTrees ELSE { EmptyTree })
  /\ uids = 0
  /\ EngineIdle
  /\ GuiIdle

\* int((idx / len(dicom_files)) * 100); the float product equals the exact
\* quotient for every list shorter than 50 files.
progress_percent(i, n) == (i * 100) \div n

StatusLine(i, n, file_path) ==
  "Processing " \o ToString(i) \o "/" \o ToString(n) \o ": " \o Name(file_path)

\* The two emits that end an iteration of the loop.
EmitProgress(file_path) ==
  /\ progressLog' = Append(progressLog, progress_percent(idx + 1, Len(dicom_files)))
  /\ statusLog' = Append(statusLog, StatusLine(idx + 1, Len(dicom_files), file_path))

\* Variants of RecordFailure: one that forgets the counter, one that drops
\* the file name from the entry.
RecordFailure_uncounted(st, file_path, text) ==
  [ st EXCEPT !.errors = Append(@, Name(file_path) \o ": " \o text) ]

RecordFailure_unnamed(st, file_path, text) ==
  [ st EXCEPT !.failed = @ + 1, !.errors = Append(@, text) ]

\* stats['failed'] += 1; stats['errors'].append(f"{name}: {text}")
RecordFailure(st, file_path, text) ==
  [ st EXCEPT !.failed = @ + 1,
              !.errors = Append(@, Name(file_path) \o ": " \o text) ]

\* Variant of RunNoFiles that returns without a notification.
RunNoFiles_silent ==
  /\ pc = "Idle"
  /\ find_dicom_files(fs, input_dir, inputKind) = << >>
  /\ pc' = "Completed"
  /\ UNCHANGED << input_dir, output_dir, inputKind, fs, outputCreated, dicom_files,
                  idx, stats, outcomes, progressLog, statusLog, finishedLog, uids,
                  engineVars, guiVars >>

\* run(): discovery finds nothing.
RunNoFiles ==
  /\ pc = "Idle"
  /\ find_dicom_files(fs, input_dir, inputKind) = << >>
  /\ finishedLog' = Append(finishedLog,
                      [ status |-> "error", message |-> "No DICOM files found" ])
  /\ pc' = "Completed"
  /\ UNCHANGED << input_dir, output_dir, inputKind, fs, outputCreated, dicom_files,
                  idx, stats, outcomes, progressLog, statusLog, uids, engineVars, guiVars >>

\* run(): discovery finds files, the stats are set up and the output
\* directory is created.
RunStart ==
  /\ pc = "Idle"
  /\ find_dicom_files(fs, input_dir, inputKind) # << >>
  /\ dicom_files' = find_dicom_files(fs, input_dir, inputKind)
  /\ stats' = NewStats(Len(dicom_files'))
  /\ outputCreated' = TRUE
  /\ pc' = "Processing"
  /\ UNCHANGED << input_dir, output_dir, inputKind, fs, idx, outcomes,
                  progressLog, statusLog, finishedLog, uids, engineVars, guiVars >>

\* Variant of RunMkdirFails whose handler sends the statistics along.
RunMkdirFails_withStats ==
  /\ pc = "Idle"
  /\ find_dicom_files(fs, input_dir, inputKind) # << >>
  /\ output_dir # input_dir
  /\ dicom_files' = find_dicom_files(fs, input_dir, inputKind)
  /\ stats' = NewStats(Len(dicom_files'))
  /\ finishedLog' = Append(finishedLog,
                      [ status |-> "error", message |-> "Permission denied: out",
                        total |-> stats'.total, successful |-> stats'.successful,
                        failed |-> stats'.failed,
                        total_tags_removed |-> stats'.total_tags_removed,
                        errors |-> stats'.errors ])
  /\ pc' = "Completed"
  /\ UNCHANGED << input_dir, output_dir, inputKind, fs, outputCreated, idx, outcomes,
                  progressLog, statusLog, uids, engineVars, guiVars >>

\* run(): creating the output directory raises; the outer handler reports.
RunMkdirFails ==
  /\ pc = "Idle"
  /\ find_dicom_files(fs, input_dir, inputKind) # << >>
  /\ output_dir # input_dir
  /\ dicom_files' = find_dicom_files(fs, input_dir, inputKind)
  /\ stats' = NewStats(Len(dicom_files'))
  /\ finishedLog' = Append(finishedLog,
                      [ status |-> "error", message |-> "Permission denied: out" ])
  /\ pc' = "Completed"
  /\ UNCHANGED << input_dir, output_dir, inputKind, fs, outputCreated, idx, outcomes,
                  progressLog, statusLog, uids, engineVars, guiVars >>

InLoop == pc = "Processing" /\ idx < Len(dicom_files)

CurrentFile == dicom_files[idx + 1]

\* Loop iteration: load_dicom raises, the inner handler records the failure.
FileLoadError ==
  /\ InLoop
  /\ fs[CurrentFile].kind # "record"
  /\ stats' = RecordFailure(stats, CurrentFile, "Error loading DICOM: invalid file")
  /\ outcomes' = Append(outcomes, "load_error")
  /\ EmitProgress(CurrentFile)
  /\ idx' = idx + 1
  /\ UNCHANGED << pc, input_dir, output_dir, inputKind, fs, outputCreated,
                  dicom_files, finishedLog, uids, engineVars, guiVars >>

\* The engine call of an iteration on the loaded record.
EngineCall == anonymize_dicom(fs[CurrentFile].ds, "None", uids,
                              ~ fs[CurrentFile].enumerable)

\* Loop iteration: the engine returns (False, text); the failure is
\* recorded and `continue` starts the next iteration.
FileEngineFailure ==
  /\ InLoop
  /\ fs[CurrentFile].kind = "record"
  /\ ~ EngineCall.ok
  /\ stats' = RecordFailure(stats, CurrentFile, EngineCall.message)
  /\ outcomes' = Append(outcomes, "engine_failure")
  /\ uids' = EngineCall.uids
  /\ idx' = idx + 1
  /\ UNCHANGED << pc, input_dir, output_dir, inputKind, fs, outputCreated,
                  dicom_files, progressLog, statusLog, finishedLog, engineVars, guiVars >>

output_file == Join(output_dir, relative_to(CurrentFile, input_dir))

\* Loop iteration: creating the parent directory or save_as raises.
FileSaveError ==
  /\ InLoop
  /\ fs[CurrentFile].kind = "record"
  /\ EngineCall.ok
  /\ stats' = RecordFailure(stats, CurrentFile, "No space left on device")
  /\ outcomes' = Append(outcomes, "save_error")
  /\ uids' = EngineCall.uids
  /\ EmitProgress(CurrentFile)
  /\ idx' = idx + 1
  /\ UNCHANGED << pc, input_dir, output_dir, inputKind, fs, outputCreated,
                  dicom_files, finishedLog, engineVars, guiVars >>

\* Variant of FileSuccess that adds the engine's mutation count to the
\* removed-tags total.
FileSuccess_counted ==
  /\ InLoop
  /\ fs[CurrentFile].kind = "record"
  /\ EngineCall.ok
  /\ LET dicom_data == EngineCall.ds
     IN /\ fs' = [ fs EXCEPT ![output_file] = RecordFile(dicom_data, TRUE) ]
        /\ stats' = [ stats EXCEPT
                        !.successful = @ + 1,
                        !.total_tags_removed = @ + EngineCall.count ]
  /\ outcomes' = Append(outcomes, "success")
  /\ uids' = EngineCall.uids
  /\ EmitProgress(CurrentFile)
  /\ idx' = idx + 1
  /\ UNCHANGED << pc, input_dir, output_dir, inputKind, outputCreated,
                  dicom_files, finishedLog, engineVars, guiVars >>

\* Loop iteration: the anonymized record is written below output_dir.
FileSuccess ==
  /\ InLoop
  /\ fs[CurrentFile].kind = "record"
  /\ EngineCall.ok
  /\ LET original_tag_count == Cardinality(DOMAIN fs[CurrentFile].ds)
         dicom_data == EngineCall.ds
     IN /\ fs' = [ fs EXCEPT ![output_file] = RecordFile(dicom_data, TRUE) ]
        /\ stats' = [ stats EXCEPT
                        !.successful = @ + 1,
                        !.total_tags_removed =
                           @ + (original_tag_count - Cardinality(DOMAIN dicom_data)) ]
  /\ outcomes' = Append(outcomes, "success")
  /\ uids' = EngineCall.uids
  /\ EmitProgress(CurrentFile)
  /\ idx' = idx + 1
  /\ UNCHANGED << pc, input_dir, output_dir, inputKind, outputCreated,
                  dicom_files, finishedLog, engineVars, guiVars >>

\* After the loop: stats['status'] = 'success'; self.finished.emit(stats)
RunFinish ==
  /\ pc = "Processing"
  /\ idx = Len(dicom_files)
  /\ finishedLog' = Append(finishedLog,
                      [ status |-> "success", total |-> stats.total,
                        successful |-> stats.successful, failed |-> stats.failed,
                        total_tags_removed |-> stats.total_tags_removed,
                        errors |-> stats.errors ])
  /\ pc' = "Completed"
  /\ UNCHANGED << input_dir, output_dir, inputKind, fs, outputCreated, dicom_files,
                  idx, stats, outcomes, progressLog, statusLog, uids, engineVars, guiVars >>

Next ==
  \/ RunNoFiles
  \/ RunStart
  \/ RunMkdirFails
  \/ FileLoadError
  \/ FileEngineFailure
  \/ FileSaveError
  \/ FileSuccess
  \/ RunFinish

Spec == Init /\ [][Next]_vars

\* run() is straight-line code on a thread of its own: discovery, every
\* load, engine call and save return or raise, so the worker always takes
\* its next step.
FairSpec == Spec /\ WF_vars(Next)

\* ------------------------------------------------------------ engine caller
\* A caller holding one record and applying the engine to it, again and
\* again, with one rule set.
EngineInit ==
  /\ WorkerIdle
  /\ input_dir = "in"
  /\ output_dir = "out"
  /\ inputKind = "missing"
  /\ fs = EmptyTree
  /\ uids = 0
  /\ dicom_file \in RecordsUpTo(MaxAttrs)
  /\ rules \in RuleNames
  /\ enumerable \in BOOLEAN
  /\ before = EmptyRecord
  /\ ret = NoReturn
  /\ applies = 0
  /\ uidsAtCall = 0
  /\ GuiIdle

\* success, result = DicomAnonymizer.anonymize_dicom(dicom_file, rules)
Apply(call) ==
  /\ before' = dicom_file
  /\ uidsAtCall' = uids
  /\ dicom_file' = call.ds
  /\ ret' = [ ok |-> call.ok, count |-> call.count, message |-> call.message ]
  /\ uids' = call.uids
  /\ applies' = applies + 1
  /\ UNCHANGED << workerVars, rules, enumerable, guiVars >>

Anonymize ==
  /\ applies < MaxApplies
  /\ enumerable
  /\ Apply(anonymize_dicom(dicom_file, rules, uids, FALSE))

AnonymizeRaises ==
  /\ applies < MaxApplies
  /\ ~ enumerable
  /\ Apply(anonymize_dicom(dicom_file, rules, uids, TRUE))

\* The tags the verification looks for in the anonymized record.
sensitive_tags ==
  << "PatientName", "PatientID", "PatientBirthDate",
     "ReferringPhysicianName", "OperatorsName", "InstitutionName",
     "StudyInstanceUID", "SeriesInstanceUID" >>

\* Variant of verify_files that looks for the tags in the original record.
verify_files_original(original, anonymized) ==
  LET still_present == SelectSeq(sensitive_tags, LAMBDA tag : tag \in DOMAIN original)
  IN [ done |-> TRUE,
       original_tags |-> Cardinality(DOMAIN original),
       anonymized_tags |-> Cardinality(DOMAIN anonymized),
       tags_removed |-> Cardinality(DOMAIN original) - Cardinality(DOMAIN anonymized),
       removed_count |-> Len(sensitive_tags) - Len(still_present),
       still_present |-> still_present,
       pixel_data_present |-> "PixelData" \in DOMAIN anonymized ]

\* verify_files(): the report computed from the two loaded records.
\* for tag in sensitive_tags: if tag in anonymized: still_present.append(tag)
\* else: removed_count += 1
verify_files(original, anonymized) ==
  LET still_present == SelectSeq(sensitive_tags, LAMBDA tag : tag \in DOMAIN anonymized)
  IN [ done |-> TRUE,
       original_tags |-> Cardinality(DOMAIN original),
       anonymized_tags |-> Cardinality(DOMAIN anonymized),
       tags_removed |-> Cardinality(DOMAIN original) - Cardinality(DOMAIN anonymized),
       removed_count |-> Len(sensitive_tags) - Len(still_present),
       still_present |-> still_present,
       pixel_data_present |-> "PixelData" \in DOMAIN anonymized ]

\* The caller compares the record as it was before the latest call with the
\* record the call left; the comparison only reads the two records.
Verify ==
  /\ applies >= 1
  /\ report' = verify_files(before, dicom_file)
  /\ UNCHANGED << workerVars, uids, engineVars, appVars >>

EngineNext == Anonymize \/ AnonymizeRaises \/ Verify

EngineSpec == EngineInit /\ [][EngineNext]_vars

\* ------------------------------------------------------------------ window
\* The tree the window works on: every record file path of the input
\* directory holds a record that loads and anonymizes; what a run does with
\* files that fail is the subject of Spec.
AppTree ==
  [ p \in FullPaths |->
      IF StartsWith(p, "in/") /\ relative_to(p, "in") \in RecordRelPaths
      THEN RecordFile(RecordAt(relative_to(p, "in")), TRUE)
      ELSE Absent ]

\* DicomAnonymizerApp, after __init__.
AppInit ==
  /\ WorkerIdle
  /\ input_dir = "in"
  /\ output_dir = "out"
  /\ inputKind = "dir"
  /\ fs = AppTree
  /\ uids = 0
  /\ EngineIdle
  /\ GuiIdle

\* The user checks or unchecks a box of the settings tab.
ToggleCheckbox(c) ==
  /\ checkboxes' = [ checkboxes EXCEPT ![c] = ~ @ ]
  /\ UNCHANGED << workerVars, uids, engineVars, report, worker_thread, threads,
                  finishedQueue, aborted, messageBox >>

\* What the user may have typed into the input field of the single-file tab.
SingleInputs == { "" } \cup { Join("in", rel) : rel \in RecordRelPaths \cup { "gone.dcm" } }

\* os.path.isfile(path)
isfile(path) == path \in DOMAIN fs /\ fs[path].kind \in { "record", "corrupt", "text" }

\* anonymize_single_file(): the input field is empty or names no file.
SingleFileRejected ==
  /\ \E input_file \in SingleInputs :
       input_file = "" \/ ~ isfile(input_file)
  /\ messageBox' = "Please select a valid input file"
  /\ UNCHANGED << workerVars, uids, engineVars, report, checkboxes, worker_thread,
                  threads, finishedQueue, aborted >>

\* anonymize_single_file(): the record is loaded, anonymize_dicom(dicom_data)
\* is called without a rule set and the record is saved to the output file.
AnonymizeSingleFile ==
  /\ applies < MaxApplies
  /\ \E input_file \in SingleInputs :
       /\ input_file # "" /\ isfile(input_file)
       /\ fs[input_file].kind = "record"
       /\ LET dicom_data == fs[input_file].ds
              call == anonymize_dicom(dicom_data, "None", uids, ~ fs[input_file].enumerable)
              single_output == Join("out", relative_to(input_file, "in"))
          IN /\ call.ok
             /\ before' = dicom_data
             /\ uidsAtCall' = uids
             /\ dicom_file' = call.ds
             /\ ret' = [ ok |-> call.ok, count |-> call.count, message |-> call.message ]
             /\ uids' = call.uids
             /\ applies' = applies + 1
             /\ fs' = [ fs EXCEPT ![single_output] = RecordFile(call.ds, TRUE) ]
             /\ messageBox' = "DICOM file anonymized successfully!"
  /\ UNCHANGED << pc, input_dir, output_dir, inputKind, outputCreated, dicom_files,
                  idx, stats, outcomes, progressLog, statusLog, finishedLog,
                  rules, enumerable, report, checkboxes, worker_thread, threads,
                  finishedQueue, aborted >>

SettingsNext ==
  \/ \E c \in CheckboxNames : ToggleCheckbox(c)
  \/ SingleFileRejected
  \/ AnonymizeSingleFile

\* The settings tab and the single-file tab of the window.
SettingsSpec == AppInit /\ [][SettingsNext]_vars

\* What the user may have typed into the two fields of the batch tab.
BatchInputs == { "", "in", "gone" }
BatchOutputs == { "", "out" }

\* os.path.isdir(path)
isdir(path) == path \in Dirs

\* start_batch_anonymization(): a field is empty or the input directory
\* does not exist; a warning is shown and nothing is started.
StartBatchRejected ==
  /\ ~ aborted
  /\ \E batch_input \in BatchInputs, batch_output \in BatchOutputs :
       \/ /\ batch_input = "" \/ batch_output = ""
          /\ messageBox' = "Please specify both input and output directories"
       \/ /\ batch_input # "" /\ batch_output # ""
          /\ ~ isdir(batch_input)
          /\ messageBox' = "Input directory does not exist"
  /\ UNCHANGED << workerVars, uids, engineVars, report, checkboxes, worker_thread,
                  threads, finishedQueue, aborted >>

\* A QThread is running from start() until quit() has ended its event loop.
Running(t) == threads[t].phase # "quit"

\* The worker of a thread is inside run().
Active(t) == threads[t].phase = "processing"

\* AnonymizationWorker(input_dir, output_dir) moved to a thread that was
\* started: the started signal has called run(), which has discovered the files.
NewThread(batch_input, batch_output) ==
  [ input_dir |-> batch_input, output_dir |-> batch_output,
    dicom_files |-> find_dicom_files(fs, batch_input, "dir"),
    idx |-> 0, phase |-> "processing" ]

\* start_batch_anonymization(): both checks pass.  self.worker_thread and
\* self.worker are bound to a new thread and a new worker, whatever the
\* thread bound before is doing, and the new thread is started.
StartBatch ==
  /\ ~ aborted
  /\ Len(threads) < MaxRuns
  /\ \E batch_input \in BatchInputs, batch_output \in BatchOutputs :
       /\ batch_input # "" /\ batch_output # ""
       /\ isdir(batch_input)
       /\ threads' = Append(threads, NewThread(batch_input, batch_output))
  /\ worker_thread' = Len(threads) + 1
  /\ UNCHANGED << workerVars, uids, engineVars, report, checkboxes, finishedQueue,
                  aborted, messageBox >>

\* start_batch_anonymization(): binding self.worker_thread anew drops the
\* only reference to a thread that is still running.  Where the binding
\* deletes the thread object at once, Qt aborts the process; where the
\* object outlives the binding, StartBatch describes what follows.
StartBatchAborts ==
  /\ ~ aborted
  /\ Len(threads) < MaxRuns
  /\ worker_thread # 0 /\ Running(worker_thread)
  /\ \E batch_input \in BatchInputs, batch_output \in BatchOutputs :
       /\ batch_input # "" /\ batch_output # ""
       /\ isdir(batch_input)
  /\ aborted' = TRUE
  /\ UNCHANGED << workerVars, uids, engineVars, report, checkboxes, worker_thread,
                  threads, finishedQueue, messageBox >>

\* run() of the worker of thread t: one iteration of the loop.  The record
\* is loaded, anonymized and saved below the output directory of the run.
WorkerFile(t) ==
  /\ ~ aborted
  /\ Active(t)
  /\ threads[t].idx < Len(threads[t].dicom_files)
  /\ LET file_path == threads[t].dicom_files[threads[t].idx + 1]
         call == anonymize_dicom(fs[file_path].ds, "None", uids, ~ fs[file_path].enumerable)
         written == Join(threads[t].output_dir, relative_to(file_path, threads[t].input_dir))
     IN /\ fs[file_path].kind = "record" /\ call.ok
        /\ fs' = [ fs EXCEPT ![written] = RecordFile(call.ds, TRUE) ]
        /\ uids' = call.uids
  /\ threads' = [ threads EXCEPT ![t].idx = @ + 1 ]
  /\ UNCHANGED << pc, input_dir, output_dir, inputKind, outputCreated, dicom_files,
                  idx, stats, outcomes, progressLog, statusLog, finishedLog,
                  engineVars, report, checkboxes, worker_thread, finishedQueue,
                  aborted, messageBox >>

\* run() of the worker of thread t: the loop is over (or no file was found),
\* finished is emitted and queued for the window's thread, run() returns and
\* the thread goes back to its event loop.
WorkerFinished(t) ==
  /\ ~ aborted
  /\ Active(t)
  /\ threads[t].idx = Len(threads[t].dicom_files)
  /\ threads' = [ threads EXCEPT ![t].phase = "returned" ]
  /\ finishedQueue' = Append(finishedQueue, t)
  /\ UNCHANGED << workerVars, uids, engineVars, report, checkboxes, worker_thread,
                  aborted, messageBox >>

\* batch_finished(stats): self.worker_thread.quit() and .wait() act on the
\* thread bound last, whichever worker sent the notification; wait() returns
\* once that thread has left run() and ended its event loop.
batch_finished ==
  /\ ~ aborted
  /\ finishedQueue # << >>
  /\ worker_thread # 0
  /\ ~ Active(worker_thread)
  /\ threads' = [ threads EXCEPT ![worker_thread].phase = "quit" ]
  /\ finishedQueue' = Tail(finishedQueue)
  /\ messageBox' = "Anonymization complete!"
  /\ UNCHANGED << workerVars, uids, engineVars, report, checkboxes, worker_thread,
                  aborted >>

AppNext ==
  \/ StartBatchRejected
  \/ StartBatch
  \/ StartBatchAborts
  \/ \E t \in DOMAIN threads : WorkerFile(t)
  \/ \E t \in DOMAIN threads : WorkerFinished(t)
  \/ batch_finished

\* The batch tab of the window and the worker threads it starts.
AppSpec == AppInit /\ [][AppNext]_vars

\* ================================================================= claims
\* Record files of the input tree, counted without running discovery.
RecordFilesInTree ==
  { rel \in RecordRelPaths :
      inputKind = "dir" /\ fs[Join(input_dir, rel)].kind \in { "corrupt", "record" } }

\* Entries of the input tree, files or directories, named like a record file.
DcmEntriesInTree ==
  { rel \in RecordRelPaths \cup { "scan.dcm" } :
      inputKind = "dir" /\ fs[Join(input_dir, rel)].kind # "absent" }

Failures == { "load_error", "engine_failure", "save_error" }

CountOf(seq, S) == Cardinality({ i \in DOMAIN seq : seq[i] \in S })

CompletedSuccess ==
  pc = "Completed" /\ finishedLog # << >> /\ finishedLog[1].status = "success"

CompletedError ==
  pc = "Completed" /\ finishedLog # << >> /\ finishedLog[1].status = "error"

\* C1: while Processing, successful + failed equals the number of files
\* already attempted and never exceeds total; total is the number of entries
\* discovery returns for the input tree; the statistics delivered with Completed(success)
\* satisfy successful + failed = total.
C1_StatsAddUp ==
  /\ pc = "Processing" =>
       /\ stats.successful + stats.failed = Len(outcomes)
       /\ stats.successful + stats.failed <= stats.total
       /\ stats.total = Cardinality(DcmEntriesInTree)
  /\ CompletedSuccess =>
       /\ finishedLog[1].successful + finishedLog[1].failed = finishedLog[1].total
       /\ finishedLog[1].total = Cardinality(DcmEntriesInTree)

C1_Witness ==
  /\ CompletedSuccess
  /\ finishedLog[1].total = MaxFiles
  /\ finishedLog[1].successful >= 1
  /\ finishedLog[1].failed >= 2

\* The position in `outcomes` of the k-th failed file.
FailedPosition(k) ==
  CHOOSE j \in DOMAIN outcomes :
    /\ outcomes[j] \in Failures
    /\ CountOf(SubSeq(outcomes, 1, j), Failures) = k

ErrorTexts ==
  { "Error loading DICOM: invalid file", "cannot enumerate attributes",
    "No space left on device" }

\* C2: a failed file never aborts the batch.  Every failure adds exactly one
\* to failed and exactly one entry, naming the file and carrying the error
\* text, to the error list; successful counts the successes only; a run
\* that began Processing ends with every file attempted and never in
\* Completed(error).
C2_FailureIsLocal ==
  /\ stats.failed = CountOf(outcomes, Failures)
  /\ stats.successful = CountOf(outcomes, { "success" })
  /\ Len(stats.errors) = stats.failed
  /\ \A k \in DOMAIN stats.errors :
       \E text \in ErrorTexts :
         stats.errors[k] = Name(dicom_files[FailedPosition(k)]) \o ": " \o text
  /\ (pc = "Completed" /\ outcomes # << >>) =>
       /\ CompletedSuccess
       /\ Len(outcomes) = Len(dicom_files)
       /\ finishedLog[1].errors = stats.errors
       /\ finishedLog[1].failed = stats.failed
       /\ finishedLog[1].successful = stats.successful

\* Three valid files and a corrupt one: total=4, successful=3, failed=1 and
\* one entry naming the corrupt file.
C2_Witness ==
  /\ CompletedSuccess
  /\ outcomes = << "success", "load_error", "success", "success" >>
  /\ finishedLog[1].total = 4
  /\ finishedLog[1].successful = 3
  /\ finishedLog[1].failed = 1
  /\ finishedLog[1].errors = << "img3.dcm: Error loading DICOM: invalid file" >>

\* C3: every attempted file i of N, whatever its outcome, has emitted the
\* progress value floor(i/N*100) and a status line naming it; a run in
\* Completed(success) has emitted exactly N progress values, the last one 100.
C3_ProgressForEveryFile ==
  /\ Len(progressLog) = Len(outcomes)
  /\ Len(statusLog) = Len(outcomes)
  /\ \A i \in DOMAIN progressLog :
       progressLog[i] = (i * 100) \div Len(dicom_files)
  /\ \A i \in DOMAIN statusLog :
       statusLog[i] = StatusLine(i, Len(dicom_files), dicom_files[i])
  /\ CompletedSuccess =>
       /\ Len(progressLog) = Len(dicom_files)
       /\ progressLog[Len(progressLog)] = 100

\* C4: a run whose input_root is missing, is not a directory or holds no
\* record file never enters Processing: no file is attempted, nothing is
\* emitted on progress or status, the output directory is not created, and
\* the run ends with an error message and no statistics.
C4_EmptyDiscoveryAborts ==
  RecordFilesInTree = {} =>
    /\ pc # "Processing"
    /\ outcomes = << >>
    /\ idx = 0
    /\ progressLog = << >>
    /\ statusLog = << >>
    /\ ~ outputCreated
    /\ \A p \in DOMAIN fs : StartsWith(p, "out/") => fs[p].kind = "absent"
    /\ pc = "Completed" =>
         /\ Len(finishedLog) = 1
         /\ DOMAIN finishedLog[1] = { "status", "message" }
         /\ finishedLog[1].status = "error"
         /\ finishedLog[1].message = "No DICOM files found"

\* --------------------------------------------------------- engine claims
DefaultRules == ANONYMIZATION_RULES

\* The latest engine call succeeded.
Applied == applies >= 1 /\ ret.ok

AppliedDefault == Applied /\ rules = "None"

ReplacementOf(rls, tag) ==
  (CHOOSE p \in Range(rls.replace) : p[1] = tag)[2]

SameAttribute(tag) ==
  /\ (tag \in DOMAIN dicom_file) = (tag \in DOMAIN before)
  /\ tag \in DOMAIN before => dicom_file[tag] = before[tag]

\* C5: after apply with the default rule set every remove tag and every
\* private attribute is absent, every replace tag the input held is present
\* with its configured literal, and every attribute outside the rule
\* categories, the date-shift targets and the UID tags is as it was.
C5_DefaultRulesOutcome ==
  AppliedDefault =>
    /\ \A tag \in RemoveTags(DefaultRules) : tag \notin DOMAIN dicom_file
    /\ \A tag \in DOMAIN dicom_file : ~ is_private(tag)
    /\ \A tag \in ReplaceTags(DefaultRules) \cap DOMAIN before :
         /\ tag \in DOMAIN dicom_file
         /\ dicom_file[tag] = ReplacementOf(DefaultRules, tag)
    /\ \A tag \in Tags \ (RemoveTags(DefaultRules) \cup ReplaceTags(DefaultRules)
                          \cup DateShiftTags(DefaultRules) \cup PrivateTags
                          \cup Range(UidTags)) :
         SameAttribute(tag)

\* C6: no tag the record holds is in both the remove and the replace
\* category of the default rule set, and running the replace loop before
\* the remove loop gives the same record and the same count as the order
\* of the code.
C6_RemoveReplaceCommute ==
  AppliedDefault =>
    /\ \A tag \in DOMAIN before :
         ~ (tag \in RemoveTags(DefaultRules) /\ tag \in ReplaceTags(DefaultRules))
    /\ ReplaceLoop(DefaultRules.replace, 1,
         RemoveLoop(DefaultRules.remove, 1, EngineState(before, 0)))
       = RemoveLoop(DefaultRules.remove, 1,
           ReplaceLoop(DefaultRules.replace, 1, EngineState(before, 0)))

\* C7: after apply with the default rule set every date-shift target the
\* input held is present; a value of 8 or more characters has become its
\* first 4 characters followed by "0101", a shorter value is unchanged.
C7_DatesCoarsened ==
  AppliedDefault =>
    \A tag \in DateShiftTags(DefaultRules) \cap DOMAIN before :
      /\ tag \in DOMAIN dicom_file
      /\ dicom_file[tag] = IF Len(before[tag]) >= 8
                           THEN SubSeq(before[tag], 1, 4) \o "0101"
                           ELSE before[tag]

\* The engine has been applied to its own output.
Reapplied == applies >= 2 /\ ret.ok /\ rules = "None"

UnchangedButUids ==
  \A tag \in Tags \ Range(UidTags) : SameAttribute(tag)

\* C8 as stated: a second application with the default rule set returns
\* mutation count 0 and leaves every attribute but the UID tags as it was.
C8_SecondApplyCountsNothing ==
  Reapplied => ret.count = 0 /\ UnchangedButUids

\* C8 amended: a second application with the default rule set leaves every
\* attribute but the UID tags as it was; its count is the number of
\* date-shift targets still present whose value has 8 or more characters
\* (each is rewritten to the same value and counted again), and 0 without one.
C8_SecondApplyChangesNothing ==
  Reapplied =>
    /\ UnchangedButUids
    /\ ret.count = Cardinality({ tag \in DateShiftTags(DefaultRules) \cap DOMAIN before :
                                   Len(before[tag]) >= 8 })

C8_Witness ==
  /\ Reapplied
  /\ DOMAIN before = { "AcquisitionDate", "SOPInstanceUID" }
  /\ before["AcquisitionDate"] = "20210101"
  /\ ret.count = 1

GeneratedUpTo(n) == { generate_uid(i) : i \in 1..n }

\* C9: regeneration gives every UID tag that survived the rules a fresh
\* identifier, different from its previous value, from every identifier
\* handed out before the call and from the other tags' new identifiers; it
\* creates no UID tag and adds nothing to the returned count.
C9_UidsRegenerated ==
  Applied =>
    /\ \A tag \in Range(UidTags) :
         /\ tag \in DOMAIN dicom_file =>
              /\ tag \in DOMAIN before
              /\ dicom_file[tag] # before[tag]
              /\ dicom_file[tag] \notin GeneratedUpTo(uidsAtCall)
              /\ dicom_file[tag] \in GeneratedUpTo(uids)
         /\ (tag \in DOMAIN before /\ tag \notin RemoveTags(ResolveRules(rules))) =>
              tag \in DOMAIN dicom_file
    /\ \A t1, t2 \in Range(UidTags) \cap DOMAIN dicom_file :
         t1 # t2 => dicom_file[t1] # dicom_file[t2]
    /\ ret.count = PrivatePurge(AfterRules(before, ResolveRules(rules))).anonymized_count
    /\ (rules = "keep_all" /\ DOMAIN before \subseteq Range(UidTags) \cup OtherTags) =>
         ret.count = 0

C9_Witness ==
  /\ Applied
  /\ applies = 2
  /\ rules = "keep_all"
  /\ DOMAIN dicom_file = { "SOPInstanceUID", "StudyInstanceUID" }
  /\ before["SOPInstanceUID"] = generate_uid(1)
  /\ dicom_file["SOPInstanceUID"] = generate_uid(3)
  /\ ret.count = 0

\* C10: a successful apply, with any rule set, returns a count between 0
\* and the number of attributes the record held before the call.
C10_CountBounded ==
  Applied => ret.count >= 0 /\ ret.count <= Cardinality(DOMAIN before)

\* Tags of the record before the latest call that the verification looks for.
SensitiveBefore == { tag \in Range(sensitive_tags) : tag \in DOMAIN before }

\* The report on screen is the one of the two records now held.
Verified == report.done /\ report = verify_files(before, dicom_file)

\* C11: after a successful apply with the default rule set the verification
\* reports no sensitive tag still present: none of PatientName, PatientID,
\* PatientBirthDate, ReferringPhysicianName, OperatorsName, InstitutionName,
\* StudyInstanceUID, SeriesInstanceUID is in the anonymized record, all of
\* them count as removed, and the verification changes neither record.
C11_VerifierFindsNothing ==
  /\ [](AppliedDefault =>
          /\ \A tag \in Range(sensitive_tags) : tag \notin DOMAIN dicom_file
          /\ report.done =>
               /\ report.still_present = << >>
               /\ report.removed_count = Len(sensitive_tags))
  /\ [][report' # report => UNCHANGED << before, dicom_file, fs >>]_vars

\* A record holding two sensitive tags has been anonymized and verified.
C11_Witness ==
  /\ AppliedDefault
  /\ applies = 1
  /\ Cardinality(SensitiveBefore) = 2
  /\ "StudyInstanceUID" \in SensitiveBefore
  /\ Verified
  /\ report.tags_removed = 2

\* C12: apply never alters the pixel payload: PixelData is present after
\* the call exactly when it was present before, with the same value,
\* whatever other attributes, private ones included, the record holds and
\* whether the call succeeds or fails.
C12_PixelDataUntouched ==
  (applies >= 1 /\ rules = "None") => SameAttribute("PixelData")

\* A record holding PixelData and a private attribute has been anonymized:
\* the private attribute is gone, PixelData is the only one left.
C12_Witness ==
  /\ AppliedDefault
  /\ DOMAIN before = { "PixelData", "(0009,0010)" }
  /\ DOMAIN dicom_file = { "PixelData" }
  /\ dicom_file["PixelData"] = before["PixelData"]
  /\ ret.count = 1

\* The run ended in the outer handler: files were discovered and the output
\* directory could not be created.
FatalError == pc = "Completed" /\ dicom_files # << >> /\ ~ outputCreated

\* C13: an exception escaping the per-file handling (creating the output
\* directory fails) ends the run in Completed(error) with the exception's
\* message; the notification holds the error status and the message only,
\* none of the statistics set up so far, and no file was attempted.
C13_FatalErrorDropsStats ==
  FatalError =>
    /\ Len(finishedLog) = 1
    /\ DOMAIN finishedLog[1] = { "status", "message" }
    /\ finishedLog[1].status = "error"
    /\ finishedLog[1].message = "Permission denied: " \o output_dir
    /\ outcomes = << >>
    /\ progressLog = << >> /\ statusLog = << >>

\* Four files were discovered and counted, then the directory creation failed.
C13_Witness ==
  /\ FatalError
  /\ CompletedError
  /\ stats.total = MaxFiles
  /\ finishedLog[1].message = "Permission denied: out"

\* The step appends a success: the file at CurrentFile was written to output_file.
WritesOutput ==
  Len(outcomes') = Len(outcomes) + 1 /\ outcomes'[Len(outcomes')] = "success"

\* C16: a batch run never overwrites an input file: no path written while
\* Processing is the path of a discovered input file, and a run whose
\* output directory is its input directory writes no file at all.
C16_NeverOverwritesInput ==
  /\ [](output_dir = input_dir => CountOf(outcomes, { "success" }) = 0)
  /\ [][WritesOutput => output_file \notin Range(dicom_files)]_vars

\* The text of the error entry an outcome adds for a file.
ErrorTextOf(outcome) ==
  IF outcome = "load_error" THEN "Error loading DICOM: invalid file"
  ELSE IF outcome = "engine_failure" THEN "cannot enumerate attributes"
  ELSE "No space left on device"

\* What the first k outcomes of a run over dicom_files determine: the
\* progress values, the status lines and the error list.
RECURSIVE ExpectedProgress(_)
ExpectedProgress(k) ==
  IF k = 0 THEN << >>
  ELSE IF outcomes[k] = "engine_failure" THEN ExpectedProgress(k - 1)
  ELSE Append(ExpectedProgress(k - 1), progress_percent(k, Len(dicom_files)))

RECURSIVE ExpectedStatus(_)
ExpectedStatus(k) ==
  IF k = 0 THEN << >>
  ELSE IF outcomes[k] = "engine_failure" THEN ExpectedStatus(k - 1)
  ELSE Append(ExpectedStatus(k - 1), StatusLine(k, Len(dicom_files), dicom_files[k]))

RECURSIVE ExpectedErrors(_)
ExpectedErrors(k) ==
  IF k = 0 THEN << >>
  ELSE IF outcomes[k] = "success" THEN ExpectedErrors(k - 1)
  ELSE Append(ExpectedErrors(k - 1),
              Name(dicom_files[k]) \o ": " \o ErrorTextOf(outcomes[k]))

\* C17: discovery returns the entries of the tree in lexicographic path
\* order and the run attempts them in that order, one per step; the progress
\* values, the status lines and the error list are a function of the tree
\* and of the per-file outcomes, so two runs over the same tree with the
\* same outcomes emit the same sequences in the same file order.
C17_Deterministic ==
  /\ [](pc # "Idle" =>
          /\ \A i, j \in DOMAIN dicom_files :
               i < j => StrLess(dicom_files[i], dicom_files[j], 1)
          /\ Range(dicom_files) = { Join(input_dir, rel) : rel \in DcmEntriesInTree }
          /\ Len(outcomes) = idx
          /\ progressLog = ExpectedProgress(idx)
          /\ statusLog = ExpectedStatus(idx)
          /\ stats.errors = ExpectedErrors(idx))
  /\ [][idx' = idx \/ (idx' = idx + 1 /\ Len(outcomes') = idx')]_vars

\* A finished run over five entries in nested directories, some of which failed.
C17_Witness ==
  /\ CompletedSuccess
  /\ Len(dicom_files) = MaxFiles + 1
  /\ dicom_files[3] = "in/scan.dcm"
  /\ dicom_files[4] = "in/sub/img2.dcm"
  /\ Len(stats.errors) = 2
  /\ Len(statusLog) = MaxFiles + 1

\* The step attempts one more file, with the given outcomes.
Attempts(S) ==
  Len(outcomes') = Len(outcomes) + 1 /\ outcomes'[Len(outcomes')] \in S

\* C18: while Processing the statistics only accumulate: successful, failed,
\* the number of error entries and total_tags_removed never decrease and
\* total never changes; total_tags_removed grows only when a file succeeds,
\* by the number of attributes the file held minus the number the written
\* record holds, which is never negative; a failed file adds nothing to it.
C18_StatsMonotonic ==
  [][pc = "Processing" =>
       /\ stats'.total = stats.total
       /\ stats'.successful >= stats.successful
       /\ stats'.failed >= stats.failed
       /\ Len(stats'.errors) >= Len(stats.errors)
       /\ stats'.total_tags_removed >= stats.total_tags_removed
       /\ Attempts({ "success" }) =>
            /\ stats'.total_tags_removed - stats.total_tags_removed =
                 Cardinality(DOMAIN fs[CurrentFile].ds)
                   - Cardinality(DOMAIN fs'[output_file].ds)
            /\ Cardinality(DOMAIN fs[CurrentFile].ds)
                 >= Cardinality(DOMAIN fs'[output_file].ds)
       /\ ~ Attempts({ "success" }) =>
            stats'.total_tags_removed = stats.total_tags_removed
       /\ Attempts(Failures) =>
            /\ stats'.successful = stats.successful
            /\ stats'.failed = stats.failed + 1]_vars

\* A patient record lost three attributes, a plain record none, and two
\* files failed.
C18_Witness ==
  /\ pc = "Processing"
  /\ stats.total = MaxFiles
  /\ stats.successful = 2
  /\ stats.failed = 2
  /\ stats.total_tags_removed = 3

\* Some step of run() is ready: the guards of the steps cover the state.
NextStepReady ==
  \/ pc = "Idle" /\ find_dicom_files(fs, input_dir, inputKind) = << >>
  \/ pc = "Idle" /\ find_dicom_files(fs, input_dir, inputKind) # << >>
  \/ InLoop /\ fs[CurrentFile].kind # "record"
  \/ InLoop /\ fs[CurrentFile].kind = "record" /\ ~ EngineCall.ok
  \/ InLoop /\ fs[CurrentFile].kind = "record" /\ EngineCall.ok
  \/ pc = "Processing" /\ idx = Len(dicom_files)

\* Steps run() can still take: one per file not yet attempted and the final
\* notification; before discovery, more than any tree can require.
StepsLeft ==
  IF pc = "Idle" THEN Cardinality(RelPaths) + 2
  ELSE IF pc = "Processing" THEN Len(dicom_files) - idx + 1
  ELSE 0

\* C19: every run delivers exactly one finished notification and it is the
\* last notification of the run: nothing is emitted on progress, status or
\* finished after it and the run is Completed exactly when it was delivered.
\* A run over finitely many files always reaches it: until then a step of
\* run() is always ready, every step uses up one of finitely many steps
\* left, and none is left exactly when the run is Completed.
C19_FinishedOnceAndLast ==
  /\ [](/\ Len(finishedLog) <= 1
        /\ (pc = "Completed") = (Len(finishedLog) = 1)
        /\ pc # "Completed" => NextStepReady
        /\ StepsLeft >= 0
        /\ (StepsLeft = 0) = (pc = "Completed"))
  /\ [][finishedLog # << >> => UNCHANGED << progressLog, statusLog, finishedLog >>]_vars
  /\ [][StepsLeft' < StepsLeft]_vars

\* A run that attempted every file, failures included, and then delivered
\* its statistics.
C19_Witness ==
  /\ pc = "Completed"
  /\ Len(finishedLog) = 1
  /\ finishedLog[1].status = "success"
  /\ Len(outcomes) = MaxFiles
  /\ CountOf(outcomes, { "engine_failure" }) = 1
  /\ Len(progressLog) = MaxFiles - 1

\* Threads whose worker is inside run().
ActiveWorkers == { t \in DOMAIN threads : Active(t) }

\* C14: at any time at most one batch worker is active: a run requested
\* while an earlier run has not delivered its finished notification does
\* not lead to two workers processing files at once, so no two runs write
\* below the same output directory at the same time.
C14_OneActiveWorker ==
  /\ Cardinality(ActiveWorkers) <= 1
  /\ \A t, u \in ActiveWorkers : t # u => threads[t].output_dir # threads[u].output_dir

\* The step is a successful engine call made while check box c is unchecked.
AppliesWithout(c) ==
  applies' = applies + 1 /\ ret'.ok /\ ~ checkboxes[c]

\* The attribute is in the record after the step as it was in the loaded record.
KeptByStep(tag) ==
  /\ (tag \in DOMAIN dicom_file') = (tag \in DOMAIN before')
  /\ tag \in DOMAIN before' => dicom_file'[tag] = before'[tag]

\* C15: every option of the settings governs its class of mutation: with
\* the private-tag option off apply removes no private attribute, with the
\* UID option off apply leaves the SOP, Study and Series instance UIDs as
\* they were, and likewise the patient-name, date and physician options
\* leave their attributes alone when off.
C15_OptionsGovern ==
  [][/\ AppliesWithout("remove_private_tags") => \A tag \in PrivateTags : KeptByStep(tag)
     /\ AppliesWithout("generate_new_uids") => \A tag \in Range(UidTags) : KeptByStep(tag)
     /\ AppliesWithout("remove_patient_name") => KeptByStep("PatientName")
     /\ AppliesWithout("remove_dates") =>
          \A tag \in DateShiftTags(ANONYMIZATION_RULES) : KeptByStep(tag)
     /\ AppliesWithout("remove_physician") =>
          \A tag \in { "ReferringPhysicianName", "PerformingPhysicianName",
                       "OperatorsName", "InstitutionName" } : KeptByStep(tag)]_vars

====
